---- MODULE Spec2Model ----
(***************************************************************************)
(* Model of the retrieval core of doc-qa-engine:                           *)
(*   backend/simple_vector_store.py  (per-document vector store, registry, *)
(*                                    persistence, cosine search)          *)
(*   backend/text_chunker.py         (token / character window chunker)    *)
(*                                                                         *)
(* Three specifications share the module: StoreSpec drives the vector      *)
(* store and leaves the chunker idle, ChunkSpec runs one chunk_text call   *)
(* and leaves the store idle, ConcSpec runs an upload request and a chat   *)
(* request on the same document as two coroutines of one event loop.       *)
(***************************************************************************)
EXTENDS Integers, Sequences, FiniteSets, TLC

VARIABLES
    stores,       \* _stores: registry doc_id -> SimpleVectorStore (partial map)
    disk,         \* STORAGE_DIR: doc_id -> contents of doc_<id>.json
    last,         \* the last request and what it returned or raised
    text,         \* chunk_text: argument text
    chunk_size,   \* chunk_text: argument chunk_size
    overlap,      \* chunk_text: argument overlap
    tokens,       \* chunk_text: encoding.encode(text)
    i,            \* chunk_text: window start
    chunk_index,  \* chunk_text: next chunk index
    chunks,       \* chunk_text: the list being built / returned
    strategy,     \* chunk_text: "token", "char" (the encoding failed), or
                  \* "token_then_char" (the token loop raised)
    pc,           \* chunk_text: position in the function
    upload,       \* the upload request: its position, the arguments of its
                  \* store_document call, the collection it found
    chat,         \* the chat request: its position, the arguments of its
                  \* search_document call, the collection it searched
    running       \* the coroutine the event loop is running, "loop" when none

storeVars == <<stores, disk, last>>
chunkVars == <<text, chunk_size, overlap, tokens, i, chunk_index, chunks, strategy, pc>>
concVars == <<upload, chat, running>>
vars == <<stores, disk, last,
          text, chunk_size, overlap, tokens, i, chunk_index, chunks, strategy, pc,
          upload, chat, running>>

(***************************************************************************)
(* Bounds                                                                  *)
(***************************************************************************)
\* longest chunk list / vector list handed to an ingest
MaxLen == 2
\* longest text handed to chunk_text, in characters
MaxTextLen == 3
\* largest chunk_size and overlap handed to chunk_text
MaxChunkSize == 3
\* longest token of the encoding, in bytes
MaxTokenBytes == 2
\* window and overlap of the character fallback (4000 and 500 in
\* text_chunker.py, lines 12-13), scaled down to the texts above
CHUNK_SIZE_CHARS == 2
CHUNK_OVERLAP_CHARS == 1
\* chunks a call may build before the list no longer fits in memory; a call
\* whose window advances needs at most one chunk per token
MaxChunks == 2 * MaxTextLen + 2

Docs == {"d1"}
\* text of the chunks of one ingest (two versions of a document)
ChunkTexts == {"v1", "v2"}
\* embedding vectors an ingest may carry, and query vectors
Vecs == {<<1, 0>>, <<0, 1>>}
Queries == {<<1, 0>>, <<0, 0>>, <<-1, 1>>}
TopKs == (0 - 1) .. (MaxLen + 2)

Min(a, b) == IF a < b THEN a ELSE b
Max(a, b) == IF a > b THEN a ELSE b

\* Python s[lo:hi] (0-based, negative indices count from the end, clamped)
PyIndex(n, k) == IF k < 0 THEN Max(n + k, 0) ELSE Min(k, n)
PySlice(s, lo, hi) == SubSeq(s, PyIndex(Len(s), lo) + 1, PyIndex(Len(s), hi))

\* chunk lists as main.py hands them over: chunk k carries chunk_index k
ChunkList(t, n) == [k \in 1..n |-> [text |-> t, chunk_index |-> k - 1]]
ChunkLists == {ChunkList(t, n) : t \in ChunkTexts, n \in 0..MaxLen}
VecLists == UNION {[1..n -> Vecs] : n \in 0..MaxLen}
\* the end-to-end scenario of the specification: three chunks, the first and
\* the third with the same vector
ScenarioChunks == ChunkList("v1", 3)
ScenarioVectors == <<(<<1, 0>>), (<<0, 1>>), (<<1, 0>>)>>
\* what an ingest is called with: every chunk list with every vector list of
\* its length, lists of differing lengths (there with all vectors alike: only
\* the lengths are read before the call fails), and the scenario
UniformVecLists == {[k \in 1..n |-> v] : v \in Vecs, n \in 0..MaxLen}
Ingests ==
    {p \in ChunkLists \X (VecLists \cup UniformVecLists) :
        Len(p[1]) = Len(p[2]) \/ p[2] \in UniformVecLists}
    \cup {<<ScenarioChunks, ScenarioVectors>>}

(***************************************************************************)
(* Durable storage: one JSON file per document                             *)
(***************************************************************************)
AllKeys == {"doc_id", "embeddings", "chunks"}
NoFile == [kind |-> "absent", has |-> {}, embeddings |-> <<>>, chunks |-> <<>>]
\* a file json.load cannot parse (truncated or damaged)
CorruptFile == [kind |-> "corrupt", has |-> {}, embeddings |-> <<>>, chunks |-> <<>>]
\* a parseable JSON object with the keys `has`
JsonFile(has, embs, cks) ==
    [kind |-> "json", has |-> has,
     embeddings |-> IF "embeddings" \in has THEN embs ELSE <<>>,
     chunks |-> IF "chunks" \in has THEN cks ELSE <<>>]

\* data.get(key, [])
JsonGet(file, key) ==
    IF key \in file.has
    THEN (IF key = "embeddings" THEN file.embeddings ELSE file.chunks)
    ELSE <<>>

\* files that may lie in STORAGE_DIR when the process starts
InitialFiles ==
    {NoFile, CorruptFile,
     JsonFile(AllKeys, <<<<0, 1>>>>, ChunkList("v1", 1)),
     JsonFile({"doc_id", "embeddings"}, <<<<1, 0>>, <<0, 1>>>>, <<>>),
     JsonFile({"doc_id", "chunks"}, <<>>, ChunkList("v1", 1))}

(***************************************************************************)
(* SimpleVectorStore                                                       *)
(***************************************************************************)
EmptyStore == [chunks |-> <<>>, embeddings |-> <<>>]

\* _load without its try/except (mutant)
_load_Unguarded(file, readable) ==
    IF file.kind = "absent" THEN [raised |-> "none", store |-> EmptyStore]
    ELSE IF file.kind = "corrupt" \/ ~readable
    THEN [raised |-> "JSONDecodeError", store |-> EmptyStore]
    ELSE [raised |-> "none",
          store |-> [chunks |-> JsonGet(file, "chunks"),
                     embeddings |-> JsonGet(file, "embeddings")]]

\* _load: the exception that leaves it ("none": it returns) and the fields of
\* the store afterwards. readable is FALSE when open() raises on the file.
_load(file, readable) ==
    IF file.kind = "absent" THEN [raised |-> "none", store |-> EmptyStore]
    ELSE IF file.kind = "corrupt" \/ ~readable
    THEN [raised |-> "none", store |-> EmptyStore]
    ELSE [raised |-> "none",
          store |-> [chunks |-> JsonGet(file, "chunks"),
                     embeddings |-> JsonGet(file, "embeddings")]]

\* __init__
SimpleVectorStore(file, readable) == _load(file, readable)

\* _save: outcome "ok", or "write_fail": json.dump raises (a value of a chunk
\* is not JSON serializable, the disk is full) after open(..., 'w') truncated
\* the file; _save catches the exception and returns normally
SaveOutcomes == {"ok", "write_fail"}
_save(store, file, outcome) ==
    IF outcome = "ok" THEN JsonFile(AllKeys, store.embeddings, store.chunks)
    ELSE CorruptFile

\* add without its length check (mutant)
add_NoParityCheck(store, file, cks, embs, outcome) ==
    LET s == [chunks |-> cks, embeddings |-> embs]
    IN  [result |-> "ok", store |-> s, file |-> _save(s, file, outcome)]

\* add: returns the error (or "ok"), the store and the file afterwards
add(store, file, cks, embs, outcome) ==
    IF Len(cks) # Len(embs)
    THEN [result |-> "ValueError", store |-> store, file |-> file]
    ELSE LET s == [chunks |-> cks, embeddings |-> embs]
         IN  [result |-> "ok", store |-> s, file |-> _save(s, file, outcome)]

(***************************************************************************)
(* Similarity search                                                       *)
(***************************************************************************)
Dot(a, b) == a[1] * b[1] + a[2] * b[2]

\* _cosine_similarity. The float dot/(|v1|*|v2|) is carried as the exact
\* rational num/den = cos*|cos| (the same order and the same ties as cos).
_cosine_similarity(vec1, vec2) ==
    LET dot_product == Dot(vec1, vec2)
        norm1sq == Dot(vec1, vec1)
        norm2sq == Dot(vec2, vec2)
    IN  IF norm1sq = 0 \/ norm2sq = 0
        THEN [num |-> 0, den |-> 1]
        ELSE [num |-> (IF dot_product < 0 THEN 0 - 1 ELSE 1) * dot_product * dot_product,
              den |-> norm1sq * norm2sq]

ScoreLT(a, b) == a.num * b.den < b.num * a.den
ScoreEQ(a, b) == a.num * b.den = b.num * a.den

\* a sort that is not stable: x goes before the elements scoring the same (mutant)
InsertDesc_TiesFirst(sorted, x) ==
    LET lower == {j \in 1..Len(sorted) : ~ScoreLT(x.score, sorted[j].score)}
        pos == IF lower = {} THEN Len(sorted) + 1
               ELSE CHOOSE j \in lower : \A m \in lower : j <= m
    IN  SubSeq(sorted, 1, pos - 1) \o <<x>> \o SubSeq(sorted, pos, Len(sorted))

\* where list.sort(key=score, reverse=True) puts x, which came after every
\* element of the already sorted prefix: behind all elements scoring >= x
InsertDesc(sorted, x) ==
    LET lower == {j \in 1..Len(sorted) : ScoreLT(sorted[j].score, x.score)}
        pos == IF lower = {} THEN Len(sorted) + 1
               ELSE CHOOSE j \in lower : \A m \in lower : j <= m
    IN  SubSeq(sorted, 1, pos - 1) \o <<x>> \o SubSeq(sorted, pos, Len(sorted))

RECURSIVE SortDesc(_)
SortDesc(s) ==
    IF s = <<>> THEN <<>>
    ELSE InsertDesc(SortDesc(SubSeq(s, 1, Len(s) - 1)), s[Len(s)])

\* lines 96-97 without .copy(): the score is written into the stored dict,
\* which is also the result (mutant)
ScoreChunk_NoCopy(stored, score) ==
    LET chunk == [text |-> stored.text, chunk_index |-> stored.chunk_index,
                  score |-> score]
    IN  [chunk |-> chunk, stored |-> chunk]

\* lines 96-97: chunk = self.chunks[idx].copy(); chunk["score"] = float(score).
\* The result dict and the stored dict afterwards.
ScoreChunk(stored, score) ==
    [chunk |-> [text |-> stored.text, chunk_index |-> stored.chunk_index,
                score |-> score],
     stored |-> stored]

\* SimpleVectorStore.search: what it returns or raises, and the store once it
\* has; the loop stops at the first index self.chunks does not have
search(store, query_embedding, top_k) ==
    IF Len(store.embeddings) = 0 THEN [result |-> "ok", out |-> <<>>, store |-> store]
    ELSE LET similarities ==
                 [j \in 1..Len(store.embeddings) |->
                     [idx |-> j - 1,
                      score |-> _cosine_similarity(query_embedding, store.embeddings[j])]]
             top == PySlice(SortDesc(similarities), 0, top_k)
             bad == {j \in 1..Len(top) : top[j].idx >= Len(store.chunks)}
             n == IF bad = {} THEN Len(top)
                  ELSE (CHOOSE j \in bad : \A b \in bad : j <= b) - 1
             scored == [j \in 1..n |->
                          ScoreChunk(store.chunks[top[j].idx + 1], top[j].score)]
             after == [c \in 1..Len(store.chunks) |->
                          IF \E j \in 1..n : top[j].idx + 1 = c
                          THEN scored[CHOOSE j \in 1..n : top[j].idx + 1 = c].stored
                          ELSE store.chunks[c]]
         IN  [result |-> IF bad = {} THEN "ok" ELSE "IndexError",
              out |-> IF bad = {} THEN [j \in 1..n |-> scored[j].chunk] ELSE <<>>,
              store |-> [store EXCEPT !.chunks = after]]

(***************************************************************************)
(* Registry and request handlers                                           *)
(***************************************************************************)
\* get_or_create_store: the exception that leaves it ("none": it returns) and
\* the registry afterwards
get_or_create_store(reg, doc_id, readable) ==
    IF doc_id \in DOMAIN reg THEN [raised |-> "none", reg |-> reg]
    ELSE LET new == SimpleVectorStore(disk[doc_id], readable)
         IN  IF new.raised # "none" THEN [raised |-> new.raised, reg |-> reg]
             ELSE [raised |-> "none",
                   reg |-> [d \in DOMAIN reg \cup {doc_id} |->
                               IF d = doc_id THEN new.store ELSE reg[d]]]

\* how _save can end: it is called only once the lengths agree
SaveOutcomesFor(cks, embs) == IF Len(cks) # Len(embs) THEN {"ok"} ELSE SaveOutcomes

\* whether open() for reading can fail: only an existing file is opened
ReadOutcomes(doc_id) ==
    IF doc_id \notin DOMAIN stores /\ disk[doc_id].kind = "json" THEN BOOLEAN ELSE {TRUE}

Request(op, doc_id, result) ==
    [op |-> op, doc |-> doc_id, result |-> result, nchunks |-> 0, nvecs |-> 0,
     chunks_arg |-> <<>>, embeddings_arg |-> <<>>,
     query |-> <<0, 0>>, top_k |-> 0, out |-> <<>>,
     had_store |-> FALSE, had_file |-> FALSE, found |-> ""]

\* what the request found on disk when it had to construct the store
Found(doc_id) == IF doc_id \in DOMAIN stores THEN "" ELSE disk[doc_id].kind

\* store_document
store_document(doc_id, cks, embs) ==
    \E readable \in (IF Len(cks) # Len(embs) THEN {TRUE} ELSE ReadOutcomes(doc_id)),
       outcome \in SaveOutcomesFor(cks, embs) :
        IF Len(cks) # Len(embs)
        THEN /\ last' = [Request("store_document", doc_id, "ValueError")
                            EXCEPT !.nchunks = Len(cks), !.nvecs = Len(embs)]
             /\ UNCHANGED <<stores, disk>>
        ELSE LET g == get_or_create_store(stores, doc_id, readable)
             IN  IF g.raised # "none"
                 THEN /\ last' = [Request("store_document", doc_id, g.raised)
                                    EXCEPT !.nchunks = Len(cks), !.nvecs = Len(embs)]
                      /\ UNCHANGED <<stores, disk>>
                 ELSE LET r == add(g.reg[doc_id], disk[doc_id], cks, embs, outcome)
                      IN  /\ stores' = [g.reg EXCEPT ![doc_id] = r.store]
                          /\ disk' = [disk EXCEPT ![doc_id] = r.file]
                          /\ last' = [Request("store_document", doc_id, r.result)
                                         EXCEPT !.nchunks = Len(cks), !.nvecs = Len(embs),
                                                !.found = Found(doc_id),
                                                !.chunks_arg = IF r.result = "ok" THEN cks ELSE <<>>,
                                                !.embeddings_arg = IF r.result = "ok" THEN embs ELSE <<>>]

\* a direct call of add on a store the registry holds
store_add(doc_id, cks, embs) ==
    /\ doc_id \in DOMAIN stores
    /\ \E outcome \in SaveOutcomesFor(cks, embs) :
        LET r == add(stores[doc_id], disk[doc_id], cks, embs, outcome)
        IN  /\ stores' = [stores EXCEPT ![doc_id] = r.store]
            /\ disk' = [disk EXCEPT ![doc_id] = r.file]
            /\ last' = [Request("add", doc_id, r.result)
                           EXCEPT !.nchunks = Len(cks), !.nvecs = Len(embs),
                                  !.chunks_arg = IF r.result = "ok" THEN cks ELSE <<>>,
                                  !.embeddings_arg = IF r.result = "ok" THEN embs ELSE <<>>]

\* search_document: the results re-packaged as sources
search_document(doc_id, query_embedding, top_k) ==
    \E readable \in ReadOutcomes(doc_id) :
        LET g == get_or_create_store(stores, doc_id, readable)
        IN  IF g.raised # "none"
            THEN /\ last' = [Request("search_document", doc_id, g.raised)
                               EXCEPT !.query = query_embedding, !.top_k = top_k]
                 /\ UNCHANGED <<stores, disk>>
            ELSE LET r == search(g.reg[doc_id], query_embedding, top_k)
                     sources == [j \in 1..Len(r.out) |->
                                    [text |-> r.out[j].text,
                                     score |-> r.out[j].score,
                                     chunk_index |-> r.out[j].chunk_index,
                                     metadata |-> [chunk_index |-> r.out[j].chunk_index]]]
                 IN  /\ stores' = [g.reg EXCEPT ![doc_id] = r.store]
                     /\ last' = [Request("search_document", doc_id, r.result)
                                    EXCEPT !.query = query_embedding, !.top_k = top_k,
                                           !.found = Found(doc_id),
                                           !.out = sources]
                     /\ UNCHANGED disk

\* delete_document that forgets the storage file (mutant)
delete_document_KeepsFile(doc_id) ==
    /\ stores' = [d \in DOMAIN stores \ {doc_id} |-> stores[d]]
    /\ UNCHANGED disk
    /\ last' = [Request("delete_document", doc_id, "True")
                   EXCEPT !.had_store = doc_id \in DOMAIN stores,
                          !.had_file = disk[doc_id].kind # "absent"]

\* delete_document: unlinked is FALSE when storage_file.unlink() raises
delete_document(doc_id) ==
    \E unlinked \in (IF disk[doc_id].kind = "absent" THEN {TRUE} ELSE BOOLEAN) :
        LET req(result) ==
                [Request("delete_document", doc_id, result)
                    EXCEPT !.had_store = doc_id \in DOMAIN stores,
                           !.had_file = disk[doc_id].kind # "absent"]
        IN  /\ stores' = [d \in DOMAIN stores \ {doc_id} |-> stores[d]]
            /\ IF disk[doc_id].kind = "absent"
               THEN /\ UNCHANGED disk
                    /\ last' = req("True")
               ELSE IF unlinked
               THEN /\ disk' = [disk EXCEPT ![doc_id] = NoFile]
                    /\ last' = req("True")
               ELSE /\ UNCHANGED disk
                    /\ last' = req("False")

\* the process is restarted: the registry is empty again, the files remain
Restart ==
    /\ stores' = << >>
    /\ last' = Request("restart", "", "ok")
    /\ UNCHANGED disk

StoreInit ==
    /\ stores = << >>
    /\ disk \in [Docs -> InitialFiles]
    /\ last = Request("init", "", "ok")

ChunkIdle ==
    /\ text = <<>> /\ chunk_size = 0 /\ overlap = 0 /\ tokens = <<>>
    /\ i = 0 /\ chunk_index = 0 /\ chunks = <<>> /\ strategy = "none" /\ pc = "idle"

\* no request is in flight
NoRequest == [pc |-> "none"]
ConcIdle == upload = NoRequest /\ chat = NoRequest /\ running = "loop"

StoreNext ==
    \/ \E d \in Docs, p \in Ingests :
           store_document(d, p[1], p[2]) /\ UNCHANGED <<chunkVars, concVars>>
    \/ \E d \in Docs, p \in Ingests :
           store_add(d, p[1], p[2]) /\ UNCHANGED <<chunkVars, concVars>>
    \/ \E d \in Docs, q \in Queries, k \in TopKs :
           search_document(d, q, k) /\ UNCHANGED <<chunkVars, concVars>>
    \/ \E d \in Docs : delete_document(d) /\ UNCHANGED <<chunkVars, concVars>>
    \/ Restart /\ UNCHANGED <<chunkVars, concVars>>

StoreSpecInit == StoreInit /\ ChunkIdle /\ ConcIdle

StoreSpec == StoreSpecInit /\ [][StoreNext]_vars

(***************************************************************************)
(* text_chunker.py                                                         *)
(***************************************************************************)
\* characters: "s" whitespace, "a" a one-byte character, "w" a character of
\* two UTF-8 bytes; "r" is U+FFFD, which decode() emits for a stray byte
Chars == {"s", "a", "w"}
Texts == UNION {[1..n -> Chars] : n \in 0..MaxTextLen}
Sizes == 1..MaxChunkSize
Overlaps == 0..MaxChunkSize

\* text.encode("utf-8")
RECURSIVE Utf8(_)
Utf8(t) ==
    IF t = <<>> THEN <<>>
    ELSE (IF t[1] = "w" THEN <<"w1", "w2">> ELSE <<t[1]>>) \o Utf8(Tail(t))

\* bytes.decode("utf-8", errors="replace")
RECURSIVE Utf8Decode(_)
Utf8Decode(b) ==
    IF b = <<>> THEN <<>>
    ELSE IF b[1] = "w1"
    THEN (IF Len(b) >= 2 /\ b[2] = "w2"
          THEN <<"w">> \o Utf8Decode(Tail(Tail(b)))
          ELSE <<"r">> \o Utf8Decode(Tail(b)))
    ELSE IF b[1] = "w2" THEN <<"r">> \o Utf8Decode(Tail(b))
    ELSE <<b[1]>> \o Utf8Decode(Tail(b))

\* encoding.encode: the text's bytes cut into tokens. The vocabulary decides
\* the cuts; it is not part of the repository, so every cut into tokens of
\* 1..MaxTokenBytes bytes is a possible outcome.
RECURSIVE Encodings(_)
Encodings(b) ==
    IF b = <<>> THEN {<<>>}
    ELSE UNION {{<<SubSeq(b, 1, n)>> \o rest :
                    rest \in Encodings(SubSeq(b, n + 1, Len(b)))} :
                n \in 1..Min(MaxTokenBytes, Len(b))}

RECURSIVE Flatten(_)
Flatten(toks) == IF toks = <<>> THEN <<>> ELSE toks[1] \o Flatten(Tail(toks))

\* encoding.decode
decode(toks) == Utf8Decode(Flatten(toks))

\* not text or len(text.strip()) == 0
IsBlank(t) == \A k \in 1..Len(t) : t[k] = "s"

\* i += chunk_size + overlap (mutant)
Advance_AddsOverlap(start, size, ovl) == start + size + ovl

\* i += chunk_size - overlap
Advance(start, size, ovl) == start + size - ovl

Chunk(t, idx, start_char, end_char) ==
    [text |-> t, chunk_index |-> idx, start_char |-> start_char, end_char |-> end_char]

\* line 29: the early return
ReturnEmpty ==
    /\ pc = "start"
    /\ IsBlank(text)
    /\ pc' = "done"
    /\ UNCHANGED <<text, chunk_size, overlap, tokens, i, chunk_index, chunks, strategy>>

\* lines 36-43: the encoding is available
Encode ==
    /\ pc = "start"
    /\ ~IsBlank(text)
    /\ \E enc \in Encodings(Utf8(text)) : tokens' = enc
    /\ i' = 0
    /\ chunk_index' = 0
    /\ strategy' = "token"
    /\ pc' = "token_loop"
    /\ UNCHANGED <<text, chunk_size, overlap, chunks>>

\* lines 73-82: get_encoding or encode raised
EncodeFails ==
    /\ pc = "start"
    /\ ~IsBlank(text)
    /\ i' = 0
    /\ chunk_index' = 0
    /\ strategy' = "char"
    /\ pc' = "char_loop"
    /\ UNCHANGED <<text, chunk_size, overlap, tokens, chunks>>

\* lines 45-71: one pass of the token loop
TokenIter ==
    /\ pc = "token_loop"
    /\ Len(chunks) < MaxChunks
    /\ IF ~(i < Len(tokens))
       THEN /\ pc' = "done"
            /\ UNCHANGED <<i, chunk_index, chunks>>
       ELSE LET chunk_tokens == PySlice(tokens, i, i + chunk_size)
                chunk_txt == decode(chunk_tokens)
                tokens_before == PySlice(tokens, 0, i)
                start_char == Len(decode(tokens_before))
                end_char == start_char + Len(chunk_txt)
                moved == Advance(i, chunk_size, overlap)
            IN  /\ chunks' = Append(chunks, Chunk(chunk_txt, chunk_index, start_char, end_char))
                /\ chunk_index' = chunk_index + 1
                /\ IF moved >= Len(tokens) THEN i' = moved /\ pc' = "done"
                   ELSE IF moved = 0 THEN i' = chunk_size - overlap /\ pc' = "token_loop"
                   ELSE i' = moved /\ pc' = "token_loop"
    /\ UNCHANGED <<text, chunk_size, overlap, tokens, strategy>>

\* lines 45-82: a statement of the token loop raises (the list has used up
\* the memory: MemoryError is an Exception); the except block starts the
\* character loop with i and chunk_index at 0 and chunks as the loop left it
TokenLoopFails ==
    /\ pc = "token_loop"
    /\ Len(chunks) >= MaxChunks
    /\ i' = 0
    /\ chunk_index' = 0
    /\ strategy' = "token_then_char"
    /\ pc' = "char_loop"
    /\ UNCHANGED <<text, chunk_size, overlap, tokens, chunks>>

\* lines 84-103: memory runs out again inside the except block, and the
\* exception leaves chunk_text
ChunkTextRaises ==
    /\ pc = "char_loop"
    /\ Len(chunks) >= MaxChunks
    /\ pc' = "raised"
    /\ UNCHANGED <<text, chunk_size, overlap, tokens, i, chunk_index, chunks, strategy>>

\* lines 84-103: one pass of the character loop
CharIter ==
    /\ pc = "char_loop"
    /\ IF ~(i < Len(text))
       THEN /\ pc' = "done"
            /\ UNCHANGED <<i, chunk_index, chunks>>
       ELSE LET end == Min(i + CHUNK_SIZE_CHARS, Len(text))
                chunk_txt == PySlice(text, i, end)
                moved == Advance(i, CHUNK_SIZE_CHARS, CHUNK_OVERLAP_CHARS)
            IN  /\ chunks' = Append(chunks, Chunk(chunk_txt, chunk_index, i, end))
                /\ chunk_index' = chunk_index + 1
                /\ IF moved >= Len(text) THEN i' = moved /\ pc' = "done"
                   ELSE IF moved = 0
                   THEN i' = CHUNK_SIZE_CHARS - CHUNK_OVERLAP_CHARS /\ pc' = "char_loop"
                   ELSE i' = moved /\ pc' = "char_loop"
    /\ UNCHANGED <<text, chunk_size, overlap, tokens, strategy>>

\* a call chunk_text(text, chunk_size, overlap)
ChunkInit ==
    /\ text \in Texts
    /\ chunk_size \in Sizes
    /\ overlap \in Overlaps
    /\ tokens = <<>> /\ i = 0 /\ chunk_index = 0 /\ chunks = <<>>
    /\ strategy = "none"
    /\ pc = "start"

StoreIdle ==
    /\ stores = << >>
    /\ disk = [d \in Docs |-> NoFile]
    /\ last = Request("init", "", "ok")

ChunkNext ==
    \/ ReturnEmpty /\ UNCHANGED <<storeVars, concVars>>
    \/ Encode /\ UNCHANGED <<storeVars, concVars>>
    \/ EncodeFails /\ UNCHANGED <<storeVars, concVars>>
    \/ TokenIter /\ UNCHANGED <<storeVars, concVars>>
    \/ TokenLoopFails /\ UNCHANGED <<storeVars, concVars>>
    \/ CharIter /\ UNCHANGED <<storeVars, concVars>>
    \/ ChunkTextRaises /\ UNCHANGED <<storeVars, concVars>>

ChunkSpecInit == ChunkInit /\ StoreIdle /\ ConcIdle

ChunkSpec == ChunkSpecInit /\ [][ChunkNext]_vars

(***************************************************************************)
(* Two concurrent requests on one document (main.py upload_file and chat)  *)
(*                                                                         *)
(* uvicorn.run(app) serves every request as a coroutine of one event loop: *)
(* a coroutine keeps the thread until it reaches an await that suspends.   *)
(* Each request is suspended in its embedding call when the run starts.    *)
(***************************************************************************)
ConcDoc == CHOOSE d \in Docs : TRUE

\* the positions inside store_document (and the add and _save it calls) at
\* which the coroutine suspends, were add to await between its two
\* assignments (mutant)
store_document_Awaits_InsideAdd == {"add_embeddings"}

\* the positions inside store_document (and the add and _save it calls) at
\* which the coroutine suspends: the code holds no await expression
store_document_Awaits == {}

\* who holds the thread once coroutine co has moved to position p
Yield(co, p) ==
    IF p \in store_document_Awaits \cup {"done", "raised"} THEN "loop" ELSE co

\* coroutine co, at position p, is the one that takes the next step
Runs(co, p) == running = co \/ (running = "loop" /\ p \in store_document_Awaits)

\* main.py 109-118: create_embeddings returns, the upload calls store_document
UploadResumes ==
    /\ running = "loop"
    /\ upload.pc = "create_embeddings"
    /\ upload' = [upload EXCEPT !.pc = "store_document"]
    /\ running' = "upload"
    /\ UNCHANGED <<stores, disk, last, chat>>

\* store_document lines 130-134 and add lines 69-70: the length check, the
\* registry lookup
StoreDocumentEnters ==
    /\ Runs("upload", upload.pc)
    /\ upload.pc = "store_document"
    /\ IF Len(upload.chunks) # Len(upload.embeddings)
       THEN /\ upload' = [upload EXCEPT !.pc = "raised", !.result = "ValueError"]
            /\ running' = "loop"
            /\ UNCHANGED stores
       ELSE \E readable \in ReadOutcomes(ConcDoc) :
                LET g == get_or_create_store(stores, ConcDoc, readable)
                IN  IF g.raised # "none"
                    THEN /\ upload' = [upload EXCEPT !.pc = "raised", !.result = g.raised]
                         /\ running' = "loop"
                         /\ UNCHANGED stores
                    ELSE /\ stores' = g.reg
                         /\ upload' = [upload EXCEPT !.pc = "add_chunks",
                                                     !.before = g.reg[ConcDoc]]
                         /\ running' = Yield("upload", "add_chunks")
    /\ UNCHANGED <<disk, last, chat>>

\* add line 72: self.chunks = chunks
AddAssignsChunks ==
    /\ Runs("upload", upload.pc)
    /\ upload.pc = "add_chunks"
    /\ stores' = [stores EXCEPT ![ConcDoc].chunks = upload.chunks]
    /\ upload' = [upload EXCEPT !.pc = "add_embeddings"]
    /\ running' = Yield("upload", "add_embeddings")
    /\ UNCHANGED <<disk, last, chat>>

\* add line 73: self.embeddings = [np.array(emb) for emb in embeddings]
AddAssignsEmbeddings ==
    /\ Runs("upload", upload.pc)
    /\ upload.pc = "add_embeddings"
    /\ stores' = [stores EXCEPT ![ConcDoc].embeddings = upload.embeddings]
    /\ upload' = [upload EXCEPT !.pc = "add_save"]
    /\ running' = Yield("upload", "add_save")
    /\ UNCHANGED <<disk, last, chat>>

\* add line 74 and store_document line 136: self._save(), return len(chunks)
AddSaves ==
    /\ Runs("upload", upload.pc)
    /\ upload.pc = "add_save"
    /\ \E outcome \in SaveOutcomes :
           disk' = [disk EXCEPT ![ConcDoc] = _save(stores[ConcDoc], disk[ConcDoc], outcome)]
    /\ upload' = [upload EXCEPT !.pc = "done", !.result = "ok"]
    /\ running' = "loop"
    /\ UNCHANGED <<stores, last, chat>>

\* main.py 171-179: create_embedding returns, the chat calls search_document
ChatResumes ==
    /\ running = "loop"
    /\ chat.pc = "create_embedding"
    /\ chat' = [chat EXCEPT !.pc = "search_document"]
    /\ running' = "chat"
    /\ UNCHANGED <<stores, disk, last, upload>>

\* search_document lines 155-168, which hold no await expression
ChatSearches ==
    /\ running = "chat"
    /\ chat.pc = "search_document"
    /\ search_document(ConcDoc, chat.query, chat.top_k)
    /\ chat' = [chat EXCEPT !.pc = "done",
                            !.observed = IF ConcDoc \in DOMAIN stores'
                                         THEN stores'[ConcDoc] ELSE EmptyStore]
    /\ running' = "loop"
    /\ UNCHANGED upload

ConcInit ==
    /\ stores = << >>
    /\ disk \in [Docs -> InitialFiles]
    /\ last = Request("init", "", "ok")
    /\ \E p \in Ingests :
           upload = [pc |-> "create_embeddings", chunks |-> p[1], embeddings |-> p[2],
                     before |-> EmptyStore, result |-> ""]
    /\ \E q \in Queries, k \in TopKs :
           chat = [pc |-> "create_embedding", query |-> q, top_k |-> k,
                   observed |-> EmptyStore]
    /\ running = "loop"

ConcNext ==
    \/ UploadResumes /\ UNCHANGED chunkVars
    \/ StoreDocumentEnters /\ UNCHANGED chunkVars
    \/ AddAssignsChunks /\ UNCHANGED chunkVars
    \/ AddAssignsEmbeddings /\ UNCHANGED chunkVars
    \/ AddSaves /\ UNCHANGED chunkVars
    \/ ChatResumes /\ UNCHANGED chunkVars
    \/ ChatSearches /\ UNCHANGED chunkVars

ConcSpecInit == ConcInit /\ ChunkIdle

ConcSpec == ConcSpecInit /\ [][ConcNext]_vars

(***************************************************************************)
(* Properties of the vector store (checked under StoreSpec)                *)
(***************************************************************************)
IsIngest(r) == r.op \in {"store_document", "add"}
Collection(cks, embs) == [chunks |-> cks, embeddings |-> embs]

\* C1: an ingest (store_document or add) whose chunk count differs from its
\* vector count fails with the validation error, and the registry and the
\* durable files are afterwards exactly what they were before the call.
C1_MismatchRejectedNothingStored ==
    [][(IsIngest(last') /\ last'.nchunks # last'.nvecs)
          => (last'.result = "ValueError" /\ stores' = stores /\ disk' = disk)]_vars

\* C1 witness: a mismatched add was rejected while the document had a stored
\* collection and a durable record.
C1_Witness ==
    /\ last.op = "add" /\ last.nchunks # last.nvecs /\ last.result = "ValueError"
    /\ last.doc \in DOMAIN stores
    /\ Len(stores[last.doc].chunks) > 0
    /\ disk[last.doc].kind = "json"

\* C2: every collection held in the registry has as many chunks as
\* embeddings, also one loaded from whatever parseable record is on disk.
C2_ParityInvariant ==
    \A d \in DOMAIN stores : Len(stores[d].chunks) = Len(stores[d].embeddings)

\* C3: whenever an ingest returns successfully, the durable record of the
\* document holds exactly the chunks and vectors of that call, so that
\* reloading it yields the same chunks and vectors.
C3_SuccessfulAddIsDurable ==
    (IsIngest(last) /\ last.result = "ok")
        => /\ disk[last.doc] = JsonFile(AllKeys, last.embeddings_arg, last.chunks_arg)
           /\ _load(disk[last.doc], TRUE).store
                  = Collection(last.chunks_arg, last.embeddings_arg)

\* C4: after delete_document succeeds neither the registry entry nor the
\* durable file of the document exists; a search of a document with neither
\* sees an empty collection; deleting a document with neither succeeds and
\* changes nothing.
C4_DeleteRemovesAndIsIdempotent ==
    [][/\ (last'.op = "delete_document" /\ last'.result = "True")
            => (last'.doc \notin DOMAIN stores' /\ disk'[last'.doc].kind = "absent")
       /\ (/\ last'.op = "search_document"
           /\ last'.doc \notin DOMAIN stores
           /\ disk[last'.doc].kind = "absent")
            => (/\ last'.result = "ok" /\ last'.out = <<>>
                /\ stores'[last'.doc] = EmptyStore
                /\ disk' = disk)
       /\ (/\ last'.op = "delete_document"
           /\ last'.doc \notin DOMAIN stores
           /\ disk[last'.doc].kind = "absent")
            => (last'.result = "True" /\ stores' = stores /\ disk' = disk)]_vars

\* C4 witness: a delete succeeded on a document that had both a registry
\* entry and a durable file.
C4_Witness ==
    /\ last.op = "delete_document" /\ last.result = "True"
    /\ last.had_store /\ last.had_file
    /\ last.doc \notin DOMAIN stores /\ disk[last.doc].kind = "absent"

\* C5: loading a document whose persisted record does not deserialize never
\* raises: the request that loads it returns, the store it creates is empty
\* (a search returns nothing), and an ingest into it stores the chunks and
\* vectors of the call.
C5_CorruptRecordLoadsEmpty ==
    [][/\ (/\ last'.op = "search_document"
           /\ last'.doc \notin DOMAIN stores
           /\ disk[last'.doc].kind = "corrupt")
            => (/\ last'.result = "ok" /\ last'.out = <<>>
                /\ last'.doc \in DOMAIN stores'
                /\ stores'[last'.doc] = EmptyStore)
       /\ (/\ IsIngest(last') /\ last'.nchunks = last'.nvecs
           /\ disk[last'.doc].kind = "corrupt")
            => (/\ last'.result = "ok"
                /\ last'.doc \in DOMAIN stores'
                /\ stores'[last'.doc]
                       = Collection(last'.chunks_arg, last'.embeddings_arg))]_vars

\* C5 witness: an ingest constructed the store from an unparseable record
\* and stored its non-empty collection.
C5_Witness ==
    /\ last.op = "store_document" /\ last.found = "corrupt"
    /\ last.result = "ok" /\ last.nchunks > 0
    /\ stores[last.doc] = Collection(last.chunks_arg, last.embeddings_arg)

\* C6: every search returns without error exactly min(n, max(top_k, 0))
\* results, n being the number of stored vectors (stated for the collections
\* with as many chunks as vectors, where nothing but search decides it).
C6_SearchResultCount ==
    (/\ last.op = "search_document"
     /\ last.doc \in DOMAIN stores
     /\ Len(stores[last.doc].chunks) = Len(stores[last.doc].embeddings))
        => /\ last.result = "ok"
           /\ Len(last.out)
                  = Min(Len(stores[last.doc].embeddings), Max(last.top_k, 0))

\* C7: search results are ordered by score descending, and results with
\* equal scores are in storage order; with the vectors [1,0],[0,1],[1,0],
\* the query [1,0] and top_k = 2 the results are chunk 0, then chunk 2.
C7_RankedDescendingStable ==
    (last.op = "search_document" /\ last.result = "ok")
        => /\ \A j, k \in 1..Len(last.out) :
                  j < k => /\ ~ScoreLT(last.out[j].score, last.out[k].score)
                           /\ ScoreEQ(last.out[j].score, last.out[k].score)
                                 => last.out[j].chunk_index < last.out[k].chunk_index
           /\ (/\ stores[last.doc] = Collection(ScenarioChunks, ScenarioVectors)
               /\ last.query = <<1, 0>> /\ last.top_k = 2)
                 => (/\ Len(last.out) = 2
                     /\ last.out[1].chunk_index = 0
                     /\ last.out[2].chunk_index = 2)

\* C7 witness: the scenario was searched with the query [1,0] and top_k = 2
\* and two results with equal scores came back.
C7_Witness ==
    /\ last.op = "search_document" /\ last.result = "ok"
    /\ stores[last.doc] = Collection(ScenarioChunks, ScenarioVectors)
    /\ last.query = <<1, 0>> /\ last.top_k = 2
    /\ Len(last.out) = 2
    /\ ScoreEQ(last.out[1].score, last.out[2].score)

(***************************************************************************)
(* Properties of the chunker (checked under ChunkSpec)                     *)
(***************************************************************************)
\* the sequence the running strategy walks, and its window
SeqLen == IF strategy = "token" THEN Len(tokens) ELSE Len(text)
TargetSize == IF strategy = "token" THEN chunk_size ELSE CHUNK_SIZE_CHARS
\* the configuration the chunker assumes (the fallback's is fixed)
AssumedConfig == strategy \in {"token", "token_then_char"} => overlap < chunk_size

\* C8: for every chunk_size and overlap, also overlap >= chunk_size, each pass
\* of the loop moves the window start forward by a strictly positive amount,
\* and the loop stops once the window start reaches the sequence length.
C8_WindowAlwaysAdvances ==
    [][(pc \in {"token_loop", "char_loop"} /\ Len(chunks') = Len(chunks) + 1)
          => (i' > i /\ (pc' = "done" <=> i' >= SeqLen))]_vars

\* C9: a text with a non-blank character whose length (tokens in token mode,
\* characters in fallback mode) is smaller than the chunk size yields exactly
\* one chunk, whose text is the whole input; the empty text yields no chunk.
C9_ShortTextOneChunk ==
    (pc = "done")
        => /\ (text = <<>>) => (chunks = <<>>)
           /\ (~IsBlank(text) /\ SeqLen < TargetSize)
                 => (Len(chunks) = 1 /\ chunks[1].text = text)

\* the chunks emitted so far leave no gap
NoGaps ==
    /\ (chunks # <<>>) => (chunks[1].start_char = 0)
    /\ \A k \in 1..Len(chunks) : chunks[k].start_char < chunks[k].end_char
    /\ \A k \in 1..(Len(chunks) - 1) :
          /\ chunks[k + 1].start_char <= chunks[k].end_char
          /\ chunks[k].start_char <= chunks[k + 1].start_char

\* C10 as claimed: in both strategies the chunks cover the text without gaps
\* and the last chunk ends at the end of the text.
C10_CoverageEndsAtTextEnd ==
    AssumedConfig
        => /\ NoGaps
           /\ (pc = "done" /\ chunks # <<>>)
                 => (chunks[Len(chunks)].end_char = Len(text))

\* C10 as amended: in both strategies the chunks cover the text without gaps;
\* the last chunk ends at the end of the text in character mode and at or
\* after it in token mode (its end_char is measured on decoded tokens, and a
\* window that starts inside a character decodes to more characters).
C10_CoverageReachesTextEnd ==
    AssumedConfig
        => /\ NoGaps
           /\ (pc = "done" /\ chunks # <<>>)
                 => /\ chunks[Len(chunks)].end_char >= Len(text)
                    /\ (strategy = "char")
                          => (chunks[Len(chunks)].end_char = Len(text))
                    /\ (strategy = "token" /\ decode(tokens) = text
                          /\ \A k \in 1..Len(chunks) :
                                 \A c \in 1..Len(chunks[k].text) : chunks[k].text[c] # "r")
                          => (chunks[Len(chunks)].end_char = Len(text))

\* C10 witness: a token-mode call returned several overlapping chunks, the
\* last of them starting inside a character and ending after the text's end.
C10_Witness ==
    /\ pc = "done" /\ strategy = "token" /\ 0 < overlap /\ overlap < chunk_size
    /\ Len(chunks) >= 2
    /\ chunks[2].start_char < chunks[1].end_char
    /\ chunks[Len(chunks)].end_char > Len(text)

\* C10 witness of the character strategy: the fallback returned several chunks.
C10_WitnessChar ==
    /\ pc = "done" /\ strategy = "char" /\ Len(chunks) >= 2
    /\ chunks[Len(chunks)].end_char = Len(text)

\* C11: in every sequence chunk_text returns, the chunk at position k has
\* chunk_index k (zero-based), whichever strategy produced the chunks, also
\* when the token strategy fails part-way and the character fallback runs.
C11_IndexIsPosition ==
    (pc = "done") => \A k \in 1..Len(chunks) : chunks[k].chunk_index = k - 1

(***************************************************************************)
(* Properties of concurrent requests (checked under ConcSpec)              *)
(***************************************************************************)
\* the collection the ingest leaves in the store
After == Collection(upload.chunks, upload.embeddings)

\* what search_document returns, or raises, on collection c
Sequential(c) == search(c, chat.query, chat.top_k)

\* C12: when store_document and search_document run on the same document as
\* concurrent requests, under every interleaving the search observes the
\* complete collection from before the ingest or the complete collection
\* from after it, never chunks of one ingest paired with vectors of another,
\* and it returns or raises what a search of that collection alone does.
C12_SearchSeesWholeCollection ==
    /\ (chat.pc = "done" /\ upload.pc \in {"add_chunks", "add_embeddings", "add_save", "done"})
          => \E c \in {upload.before, After} :
                 /\ chat.observed = c
                 /\ last.result = Sequential(c).result
                 /\ Len(last.out) = Len(Sequential(c).out)
                 /\ \A j \in 1..Len(last.out) :
                        /\ last.out[j].text = Sequential(c).out[j].text
                        /\ last.out[j].score = Sequential(c).out[j].score
    /\ (chat.pc = "done" /\ upload.pc = "raised")
          => chat.observed = stores[ConcDoc]

\* the search ran first and saw the old collection, the ingest then replaced it
C12_Witness ==
    /\ chat.pc = "done" /\ upload.pc = "done"
    /\ upload.before # After
    /\ chat.observed = upload.before
    /\ Len(last.out) > 0

\* the ingest ran first and the search saw the new collection
C12_WitnessAfter ==
    /\ chat.pc = "done" /\ upload.pc = "done"
    /\ upload.before # After
    /\ chat.observed = After
    /\ Len(last.out) > 0

(***************************************************************************)
(* Frame of search (checked under StoreSpec)                               *)
(***************************************************************************)
\* no chunk held by a store of the registry or by a storage file has a score
NoScoreStored ==
    /\ \A d \in DOMAIN stores : \A k \in 1..Len(stores[d].chunks) :
           "score" \notin DOMAIN stores[d].chunks[k]
    /\ \A d \in Docs : \A k \in 1..Len(disk[d].chunks) :
           "score" \notin DOMAIN disk[d].chunks[k]

\* C13: search is read-only with respect to the collection: once search (or
\* search_document) has returned or raised, every storage file and every
\* store the registry held are as before, a store the call had to construct
\* holds what its storage file holds, and no stored chunk, in memory or in a
\* file, has a score field.
C13_SearchIsReadOnly ==
    [][last'.op = "search_document" =>
          /\ disk' = disk
          /\ \A d \in DOMAIN stores : d \in DOMAIN stores' /\ stores'[d] = stores[d]
          /\ \A d \in DOMAIN stores' \ DOMAIN stores :
                 stores'[d] \in {_load(disk[d], readable).store : readable \in BOOLEAN}
          /\ NoScoreStored']_vars

\* a search that returned scored results from a store the registry held, whose
\* collection is also on disk
C13_Witness ==
    /\ last.op = "search_document" /\ last.result = "ok"
    /\ last.found = ""
    /\ Len(last.out) > 0
    /\ \A j \in 1..Len(last.out) : "score" \in DOMAIN last.out[j]
    /\ Len(stores[last.doc].chunks) > 0
    /\ disk[last.doc].kind = "json" /\ Len(disk[last.doc].chunks) > 0

====
